---------------------------- MODULE Spec2Model ----------------------------
(***************************************************************************)
(* Model of the assistant bot of src/main.py: the field validators (Name,  *)
(* Phone, Birthday), Record, AddressBook (a dict in insertion order), the  *)
(* input_error decorator, the command handlers, parse_input and the        *)
(* interactive loop of main().                                             *)
(*                                                                         *)
(* Python strings are TLA+ strings (Len, \o and SubSeq work on them); an   *)
(* exception is a value [exc |-> type, val |-> message] that an operator   *)
(* returns instead of its result.  A datetime.date is a record             *)
(* [year, month, day]; its arithmetic follows CPython's datetime.          *)
(***************************************************************************)
EXTENDS Integers, Sequences, FiniteSets, TLC

VARIABLES
    data,      \* AddressBook.data: name -> Record
    order,     \* the insertion order of the keys of AddressBook.data
    pc,        \* main: "prompt", "done", "crashed"; a client: "client"; birthdays: "call", "returned"
    line,      \* the last line read by input() / the last method called
    printed,   \* what the last loop iteration printed, one element per print()
    out,       \* the value the last handler or method returned, or its exception
    today,     \* <<datetime.today().date()>> when the last step read it, else <<>>
    upcoming,  \* <<what get_upcoming_birthdays returned or raised>> in the last step, else <<>>
    file       \* addressbook.pkl: <<>> when there is no file, <<book>> once saved

vars == <<data, order, pc, line, printed, out, today, upcoming, file>>

---------------------------------------------------------------------------
(* Bounds of the model *)

\* add_phone stops being offered once the book holds this many phones
MaxPhones == 2

\* today ranges over YearSpan consecutive years from 2023 (2024 is a leap year)
YearSpan == 2

---------------------------------------------------------------------------
(* Strings *)

Digits == {"0", "1", "2", "3", "4", "5", "6", "7", "8", "9"}

CharAt(s, i) == SubSeq(s, i, i)

IsDigits(s) == \A i \in 1..Len(s) : CharAt(s, i) \in Digits

DigitVal(c) == CHOOSE v \in 0..9 : CharAt("0123456789", v + 1) = c

RECURSIVE ToInt(_)
ToInt(s) ==
    IF Len(s) = 0 THEN 0
    ELSE 10 * ToInt(SubSeq(s, 1, Len(s) - 1)) + DigitVal(CharAt(s, Len(s)))

DigitStr(v) == CharAt("0123456789", v + 1)

\* "%02d"
Pad2(n) == DigitStr((n \div 10) % 10) \o DigitStr(n % 10)

\* "%Y" of a four-digit year
Pad4(n) == Pad2(n \div 100) \o Pad2(n % 100)

UpperCase == "ABCDEFGHIJKLMNOPQRSTUVWXYZ"
LowerCase == "abcdefghijklmnopqrstuvwxyz"

\* the lower-case letter of each upper-case letter
LowerOf == [c \in {CharAt(UpperCase, i) : i \in 1..Len(UpperCase)} |->
              CharAt(LowerCase, CHOOSE i \in 1..Len(UpperCase) : CharAt(UpperCase, i) = c)]

LowerChar(c) == IF c \in DOMAIN LowerOf THEN LowerOf[c] ELSE c

\* str.lower()
RECURSIVE Lower(_)
Lower(s) ==
    IF Len(s) = 0 THEN ""
    ELSE LowerChar(CharAt(s, 1)) \o Lower(SubSeq(s, 2, Len(s)))

Whitespace == {" "}

\* str.split(): the maximal runs of non-whitespace characters, in order
RECURSIVE SplitFrom(_, _, _)
SplitFrom(s, i, word) ==
    IF i > Len(s) THEN (IF word = "" THEN <<>> ELSE <<word>>)
    ELSE IF CharAt(s, i) \in Whitespace
         THEN (IF word = "" THEN <<>> ELSE <<word>>) \o SplitFrom(s, i + 1, "")
         ELSE SplitFrom(s, i + 1, word \o CharAt(s, i))

Split(s) == SplitFrom(s, 1, "")

\* the characters of a string, as iterating over it yields them
Chars(s) == [i \in 1..Len(s) |-> CharAt(s, i)]

\* str.startswith
StartsWith(s, prefix) ==
    Len(s) >= Len(prefix) /\ SubSeq(s, 1, Len(prefix)) = prefix

\* "sep".join(parts)
RECURSIVE Join(_, _)
Join(sep, parts) ==
    IF Len(parts) = 0 THEN ""
    ELSE IF Len(parts) = 1 THEN parts[1]
    ELSE parts[1] \o sep \o Join(sep, Tail(parts))

---------------------------------------------------------------------------
(* datetime.date *)

Date(y, m, d) == [year |-> y, month |-> m, day |-> d]

IsLeap(y) == y % 4 = 0 /\ (y % 100 # 0 \/ y % 400 = 0)

DaysInMonth(y, m) ==
    IF m = 2 THEN (IF IsLeap(y) THEN 29 ELSE 28)
    ELSE IF m \in {4, 6, 9, 11} THEN 30 ELSE 31

\* the (year, month, day) triples date() accepts
IsDate(y, m, d) ==
    /\ y \in 1..9999
    /\ m \in 1..12
    /\ d \in 1..DaysInMonth(y, m)

DaysBeforeYear(y) ==
    (y - 1) * 365 + ((y - 1) \div 4) - ((y - 1) \div 100) + ((y - 1) \div 400)

RECURSIVE DaysBeforeMonth(_, _)
DaysBeforeMonth(y, m) ==
    IF m = 1 THEN 0 ELSE DaysBeforeMonth(y, m - 1) + DaysInMonth(y, m - 1)

\* date.toordinal()
ToOrdinal(dt) == DaysBeforeYear(dt.year) + DaysBeforeMonth(dt.year, dt.month) + dt.day

\* date.weekday(): Monday is 0, Sunday is 6
Weekday(dt) == (ToOrdinal(dt) + 6) % 7

\* date1 < date2
DateLess(a, b) == ToOrdinal(a) < ToOrdinal(b)

\* (date1 - date2).days
DaysBetween(a, b) == ToOrdinal(a) - ToOrdinal(b)

NextDay(dt) ==
    IF dt.day < DaysInMonth(dt.year, dt.month) THEN Date(dt.year, dt.month, dt.day + 1)
    ELSE IF dt.month < 12 THEN Date(dt.year, dt.month + 1, 1)
    ELSE Date(dt.year + 1, 1, 1)

\* date + timedelta(days=k), k >= 0
RECURSIVE AddDays(_, _)
AddDays(dt, k) == IF k = 0 THEN dt ELSE AddDays(NextDay(dt), k - 1)

\* date.strftime("%d.%m.%Y")
Strftime(dt) == Pad2(dt.day) \o "." \o Pad2(dt.month) \o "." \o Pad4(dt.year)

Ok(v) == [exc |-> "None", val |-> v]
Raise(type, msg) == [exc |-> type, val |-> msg]
Raised(r) == r.exc # "None"

\* date.replace(year=y)
ReplaceYear(dt, y) ==
    IF IsDate(y, dt.month, dt.day) THEN Ok(Date(y, dt.month, dt.day))
    ELSE Raise("ValueError", "day is out of range for month")


---------------------------------------------------------------------------
(* Field validators *)

NoneVal == "None"

PhoneLen == 10

\* Name.__init__: the value, or ValueError when it is empty
Name(value) ==
    IF value = "" THEN Raise("ValueError", "Name can't be empty") ELSE Ok(value)

\* re.fullmatch(r"\d{10}", phone)
PhoneMatches(phone) == Len(phone) = PhoneLen /\ IsDigits(phone)

\* Phone.__init__
Phone(phone) ==
    IF ~PhoneMatches(phone) THEN Raise("ValueError", "The phone should contain 10 digits")
    ELSE Ok(phone)

\* the fields of s between the dots
RECURSIVE DotFieldsFrom(_, _, _)
DotFieldsFrom(s, i, word) ==
    IF i > Len(s) THEN <<word>>
    ELSE IF CharAt(s, i) = "."
         THEN <<word>> \o DotFieldsFrom(s, i + 1, "")
         ELSE DotFieldsFrom(s, i + 1, word \o CharAt(s, i))

NonZeroDigits == Digits \ {"0"}

\* %d: 3[0-1] | [1-2]\d | 0[1-9] | [1-9] | " "[1-9]
DayFieldOk(f) ==
    \/ /\ Len(f) = 2
       /\ \/ CharAt(f, 1) = "3" /\ CharAt(f, 2) \in {"0", "1"}
          \/ CharAt(f, 1) \in {"1", "2"} /\ CharAt(f, 2) \in Digits
          \/ CharAt(f, 1) \in {"0", " "} /\ CharAt(f, 2) \in NonZeroDigits
    \/ Len(f) = 1 /\ f \in NonZeroDigits

\* %m: 1[0-2] | 0[1-9] | [1-9]
MonthFieldOk(f) ==
    \/ /\ Len(f) = 2
       /\ \/ CharAt(f, 1) = "1" /\ CharAt(f, 2) \in {"0", "1", "2"}
          \/ CharAt(f, 1) = "0" /\ CharAt(f, 2) \in NonZeroDigits
    \/ Len(f) = 1 /\ f \in NonZeroDigits

\* %Y: \d\d\d\d
YearFieldOk(f) == Len(f) = 4 /\ IsDigits(f)

\* int() of a matched field (a leading blank is skipped)
FieldInt(f) == IF CharAt(f, 1) = " " THEN ToInt(SubSeq(f, 2, Len(f))) ELSE ToInt(f)

\* datetime.strptime(value, "%d.%m.%Y").date()
Strptime(value) ==
    LET f == DotFieldsFrom(value, 1, "") IN
    IF Len(f) # 3 \/ ~DayFieldOk(f[1]) \/ ~MonthFieldOk(f[2]) \/ ~YearFieldOk(f[3])
    THEN Raise("ValueError", "time data does not match format")
    ELSE IF ~IsDate(FieldInt(f[3]), FieldInt(f[2]), FieldInt(f[1]))
    THEN Raise("ValueError", "day is out of range for month")
    ELSE Ok(Date(FieldInt(f[3]), FieldInt(f[2]), FieldInt(f[1])))

\* Birthday.__init__
Birthday(value) ==
    IF Raised(Strptime(value))
    THEN Raise("ValueError", "Invalid date format. Use DD.MM.YYYY")
    ELSE Ok(Strptime(value).val)

---------------------------------------------------------------------------
(* Record: [name, phones, birthday]; birthday is <<>> (None) or <<date>> *)

\* Record.__init__
Record(name) ==
    IF Raised(Name(name)) THEN Name(name)
    ELSE Ok([name |-> Name(name).val, phones |-> <<>>, birthday |-> <<>>])

\* what a Record method leaves: the record after it and its return value
Left(rec, ret) == [rec |-> rec, ret |-> ret]

\* Record.find_phone: the place of the first phone object with this value, 0 for None
FindPhone(rec, phone) ==
    IF \E i \in 1..Len(rec.phones) : rec.phones[i] = phone
    THEN CHOOSE i \in 1..Len(rec.phones) :
            /\ rec.phones[i] = phone
            /\ \A j \in 1..(i - 1) : rec.phones[j] # phone
    ELSE 0

\* Record.add_phone
AddPhone(rec, phone) ==
    LET new_phone == Phone(phone) IN
    IF Raised(new_phone) THEN Left(rec, new_phone)
    ELSE Left([rec EXCEPT !.phones = Append(@, new_phone.val)], Ok(NoneVal))

\* list.remove of the object at place i
RemoveAt(s, i) == SubSeq(s, 1, i - 1) \o SubSeq(s, i + 1, Len(s))

\* Record.remove_phone
RemovePhone(rec, phone) ==
    LET current_phone == FindPhone(rec, phone) IN
    IF current_phone = 0 THEN Left(rec, Raise("ValueError", "Phone not found"))
    ELSE Left([rec EXCEPT !.phones = RemoveAt(@, current_phone)], Ok(NoneVal))

\* mutant: the new value is stored without being validated
EditPhoneUnvalidated(rec, old_phone, new_phone) ==
    LET current_phone == FindPhone(rec, old_phone) IN
    IF current_phone = 0 THEN Left(rec, Raise("ValueError", "Phone not found"))
    ELSE Left([rec EXCEPT !.phones[current_phone] = new_phone], Ok(NoneVal))

\* mutant: the new value is validated before the old one is looked up
EditPhoneValidatingFirst(rec, old_phone, new_phone) ==
    LET current_phone == FindPhone(rec, old_phone)
        validated_phone == Phone(new_phone)
    IN  IF Raised(validated_phone) THEN Left(rec, validated_phone)
        ELSE IF current_phone = 0 THEN Left(rec, Raise("ValueError", "Phone not found"))
        ELSE Left([rec EXCEPT !.phones[current_phone] = validated_phone.val], Ok(NoneVal))

\* Record.edit_phone
EditPhone(rec, old_phone, new_phone) ==
    LET current_phone == FindPhone(rec, old_phone)
        validated_phone == Phone(new_phone)
    IN  IF current_phone = 0 THEN Left(rec, Raise("ValueError", "Phone not found"))
        ELSE IF Raised(validated_phone) THEN Left(rec, validated_phone)
        ELSE Left([rec EXCEPT !.phones[current_phone] = validated_phone.val], Ok(NoneVal))

\* Record.add_birthday
AddBirthday(rec, birthday_string) ==
    LET b == Birthday(birthday_string) IN
    IF Raised(b) THEN Left(rec, b)
    ELSE Left([rec EXCEPT !.birthday = <<b.val>>], Ok(NoneVal))

---------------------------------------------------------------------------
(* AddressBook: [data, order], a dict and the insertion order of its keys *)

Book(d, o) == [data |-> d, order |-> o]

EmptyBook == Book(<<>>, <<>>)

Has(book, name) == name \in DOMAIN book.data

\* self.data[key] = record
SetItem(book, key, record) ==
    Book([n \in DOMAIN book.data \cup {key} |-> IF n = key THEN record ELSE book.data[n]],
         IF Has(book, key) THEN book.order ELSE Append(book.order, key))

\* AddressBook.add_record
AddRecord(book, record) == SetItem(book, record.name, record)

\* AddressBook.find: <<>> for None, <<record>> otherwise
Find(book, name) == IF Has(book, name) THEN <<book.data[name]>> ELSE <<>>

\* del self.data[name]
DelItem(book, name) ==
    Book([n \in DOMAIN book.data \ {name} |-> book.data[n]],
         SelectSeq(book.order, LAMBDA n : n # name))

\* what an AddressBook method or a handler leaves: the book and the return value
Result(book, ret) == [book |-> book, ret |-> ret]

\* mutant: a missing name is ignored, as self.data.pop(name, None) would
DeleteIgnoringMissing(book, name) ==
    IF Find(book, name) = <<>> THEN Result(book, Ok(NoneVal))
    ELSE Result(DelItem(book, name), Ok(NoneVal))

\* AddressBook.delete
Delete(book, name) ==
    IF Find(book, name) = <<>> THEN Result(book, Raise("KeyError", "Record not found"))
    ELSE Result(DelItem(book, name), Ok(NoneVal))

WindowDays == 7
Saturday == 5
Sunday == 6

\* mutant: 29 February is built as 28 February in a current year that is no leap
\* year, so that only the move to the next year can fail
CandidateDateClamped(birthday_date, today_date) ==
    LET this_year ==
            IF IsDate(today_date.year, birthday_date.month, birthday_date.day)
            THEN Date(today_date.year, birthday_date.month, birthday_date.day)
            ELSE Date(today_date.year, birthday_date.month, birthday_date.day - 1)
    IN  IF DateLess(this_year, today_date)
        THEN ReplaceYear(this_year, today_date.year + 1)
        ELSE Ok(this_year)

\* lines 135-141: the birthday in the current year, next year's when it has passed
CandidateDate(birthday_date, today_date) ==
    LET this_year == ReplaceYear(birthday_date, today_date.year) IN
    IF Raised(this_year) THEN this_year
    ELSE IF DateLess(this_year.val, today_date)
         THEN ReplaceYear(this_year.val, today_date.year + 1)
         ELSE this_year

\* line 145
InWindow(days_diff) == 0 <= days_diff /\ days_diff <= WindowDays

\* mutant: the elif for Sunday is missing
CongratulationDateSaturdayOnly(candidate) ==
    IF Weekday(candidate) = Saturday THEN AddDays(candidate, 2) ELSE candidate

\* lines 146-152: the weekend moves to the next Monday
CongratulationDate(candidate) ==
    IF Weekday(candidate) = Saturday THEN AddDays(candidate, 2)
    ELSE IF Weekday(candidate) = Sunday THEN AddDays(candidate, 1)
    ELSE candidate

Entry(name, date) == [name |-> name, congratulation_date |-> Strftime(date)]

\* the loop of get_upcoming_birthdays from the i-th value of self.data on
RECURSIVE UpcomingFrom(_, _, _, _)
UpcomingFrom(book, today_date, i, result) ==
    IF i > Len(book.order) THEN Ok(result)
    ELSE LET record == book.data[book.order[i]] IN
         IF record.birthday = <<>> THEN UpcomingFrom(book, today_date, i + 1, result)
         ELSE LET candidate == CandidateDate(record.birthday[1], today_date) IN
              IF Raised(candidate) THEN candidate
              ELSE IF InWindow(DaysBetween(candidate.val, today_date))
                   THEN UpcomingFrom(book, today_date, i + 1,
                            Append(result, Entry(record.name, CongratulationDate(candidate.val))))
                   ELSE UpcomingFrom(book, today_date, i + 1, result)

\* AddressBook.get_upcoming_birthdays, with the date datetime.today() gives
GetUpcomingBirthdays(book, today_date) == UpcomingFrom(book, today_date, 1, <<>>)


---------------------------------------------------------------------------
(* input_error and the command handlers *)

\* str(e): a KeyError shows the repr of its argument
Str(e) == IF e.exc = "KeyError" THEN "'" \o e.val \o "'" ELSE e.val

CaughtErrors == {"KeyError", "ValueError", "IndexError"}

\* mutant: the decorator without its except AttributeError clause
InputErrorWithoutAttributeError(r) ==
    IF r.exc \in CaughtErrors THEN Ok("Error: " \o Str(r)) ELSE r

\* input_error.wrapper applied to what the wrapped function returned or raised
InputError(r) ==
    IF r.exc = "AttributeError" THEN Ok("Error: Contact not found")
    ELSE IF r.exc \in CaughtErrors THEN Ok("Error: " \o Str(r))
    ELSE r

\* getting an attribute of None
NoneAttribute(attr) ==
    Raise("AttributeError", "'NoneType' object has no attribute '" \o attr \o "'")

\* a Record method applied to the record stored under name, written back in place
OnRecord(book, name, left) == Result(SetItem(book, name, left.rec), left.ret)

\* mutant: a new Record is made and added whether or not the name is found
AddContactBodyAlwaysNew(args, book) ==
    IF Len(args) < 2 THEN Result(book, Raise("ValueError", "Usage: add [name] [phone]"))
    ELSE LET name == args[1]
             phone == args[2]
             found == Find(book, name)
             created == Record(name)
         IN  IF Raised(created) THEN Result(book, created)
             ELSE LET book1 == AddRecord(book, created.val)
                      message == IF found = <<>> THEN "Contact added." ELSE "Contact updated."
                      added == OnRecord(book1, name, AddPhone(book1.data[name], phone))
                  IN  IF Raised(added.ret) THEN added
                      ELSE Result(added.book, Ok(message))

\* add_contact, undecorated
AddContactBody(args, book) ==
    IF Len(args) < 2 THEN Result(book, Raise("ValueError", "Usage: add [name] [phone]"))
    ELSE LET name == args[1]
             phone == args[2]
             found == Find(book, name)
             created == Record(name)
         IN  IF found = <<>> /\ Raised(created) THEN Result(book, created)
             ELSE LET book1 == IF found = <<>> THEN AddRecord(book, created.val) ELSE book
                      message == IF found = <<>> THEN "Contact added." ELSE "Contact updated."
                  IN  IF phone = "" THEN Result(book1, Ok(message))
                      ELSE LET added == OnRecord(book1, name, AddPhone(book1.data[name], phone))
                           IN  IF Raised(added.ret) THEN added
                               ELSE Result(added.book, Ok(message))

\* change_contact, undecorated
ChangeContactBody(args, book) ==
    IF Len(args) < 3
    THEN Result(book, Raise("ValueError", "Usage: change [name] [old_phone] [new_phone]"))
    ELSE LET name == args[1]
             record == Find(book, name)
         IN  IF record = <<>> THEN Result(book, NoneAttribute("edit_phone"))
             ELSE LET edited == OnRecord(book, name, EditPhone(record[1], args[2], args[3]))
                  IN  IF Raised(edited.ret) THEN edited
                      ELSE Result(edited.book, Ok("Phone updated."))

\* mutant: a missing record is taken for a record without phones
ShowPhonesBodyNoneAsEmpty(args, book) ==
    IF Len(args) < 1 THEN Result(book, Raise("ValueError", "Usage: phone [name]"))
    ELSE LET record == Find(book, args[1]) IN
         IF record = <<>> \/ record[1].phones = <<>> THEN Result(book, Ok("No phones found."))
         ELSE Result(book, Ok(Join("; ", record[1].phones)))

\* show_phones, undecorated
ShowPhonesBody(args, book) ==
    IF Len(args) < 1 THEN Result(book, Raise("ValueError", "Usage: phone [name]"))
    ELSE LET record == Find(book, args[1]) IN
         IF record = <<>> THEN Result(book, NoneAttribute("phones"))
         ELSE IF record[1].phones = <<>> THEN Result(book, Ok("No phones found."))
         ELSE Result(book, Ok(Join("; ", record[1].phones)))

BirthdayText(record) ==
    IF record.birthday # <<>> THEN Strftime(record.birthday[1]) ELSE "No birthday"

\* show_all, undecorated
ShowAllBody(args, book) ==
    IF DOMAIN book.data = {} THEN Result(book, Ok("No contacts in address book."))
    ELSE Result(book, Ok(Join("\n",
            [i \in 1..Len(book.order) |->
                LET record == book.data[book.order[i]] IN
                record.name \o ": " \o Join("; ", record.phones)
                    \o "; Birthday: " \o BirthdayText(record)])))

\* add_birthday, undecorated
AddBirthdayBody(args, book) ==
    IF Len(args) < 2
    THEN Result(book, Raise("ValueError", "Usage: add-birthday [name] [DD.MM.YYYY]"))
    ELSE LET name == args[1]
             record == Find(book, name)
         IN  IF record = <<>> THEN Result(book, NoneAttribute("add_birthday"))
             ELSE LET set == OnRecord(book, name, AddBirthday(record[1], args[2]))
                  IN  IF Raised(set.ret) THEN set
                      ELSE Result(set.book, Ok("Birthday added."))

\* show_birthday, undecorated
ShowBirthdayBody(args, book) ==
    IF Len(args) < 1 THEN Result(book, Raise("ValueError", "Usage: show-birthday [name]"))
    ELSE LET record == Find(book, args[1]) IN
         IF record = <<>> THEN Result(book, NoneAttribute("birthday"))
         ELSE IF record[1].birthday = <<>> THEN Result(book, Ok("No birthday set."))
         ELSE Result(book, Ok(Strftime(record[1].birthday[1])))

\* birthdays, undecorated, given what get_upcoming_birthdays returned or raised
BirthdaysBody(got, book) ==
    IF Raised(got) THEN Result(book, got)
    ELSE IF got.val = <<>> THEN Result(book, Ok("No birthdays in the next 7 days."))
    ELSE Result(book, Ok(Join("\n",
            [i \in 1..Len(got.val) |->
                got.val[i].name \o ": " \o got.val[i].congratulation_date])))

\* a handler as decorated with @input_error
Decorated(res) == Result(res.book, InputError(res.ret))

add_contact(args, book) == Decorated(AddContactBody(args, book))
change_contact(args, book) == Decorated(ChangeContactBody(args, book))
show_phones(args, book) == Decorated(ShowPhonesBody(args, book))
show_all(args, book) == Decorated(ShowAllBody(args, book))
add_birthday(args, book) == Decorated(AddBirthdayBody(args, book))
show_birthday(args, book) == Decorated(ShowBirthdayBody(args, book))
birthdays(got, book) == Decorated(BirthdaysBody(got, book))

\* parse_input, undecorated: a tuple of the lowered command and the arguments
ParseInputBody(user_input) ==
    LET tokens == Split(user_input) IN
    IF tokens = <<>>
    THEN Raise("ValueError", "not enough values to unpack (expected at least 1, got 0)")
    ELSE Ok(<<Lower(tokens[1])>> \o Tail(tokens))

\* what `command, *args = parse_input(user_input)` of main iterates over: the
\* tuple, or the characters of the message input_error returned in its place
ParsedItems(user_input) ==
    LET raw == ParseInputBody(user_input)
        got == InputError(raw)
    IN  IF Raised(got) THEN got
        ELSE IF Raised(raw) THEN Ok(Chars(got.val))
        ELSE got


---------------------------------------------------------------------------
(* main(): one iteration of the loop per step *)

\* what one iteration leaves: the book, the handler's return value, what was
\* printed, and whether the loop was left by break
Iteration(book, ret, text, left) == [book |-> book, ret |-> ret, text |-> text, left |-> left]

\* the print(handler(args, book)) of a case: an exception that input_error lets
\* through leaves main before anything is printed
Printing(res) ==
    Iteration(res.book, res.ret, IF Raised(res.ret) THEN <<>> ELSE <<res.ret.val>>, FALSE)

\* the match statement of main; got is what get_upcoming_birthdays would return
Dispatch(command, args, book, got) ==
    IF command \in {"close", "exit"} THEN Iteration(book, Ok(NoneVal), <<"Good bye!">>, TRUE)
    ELSE IF command = "hello" THEN Iteration(book, Ok(NoneVal), <<"How can I help you?">>, FALSE)
    ELSE IF command = "add" THEN Printing(add_contact(args, book))
    ELSE IF command = "change" THEN Printing(change_contact(args, book))
    ELSE IF command = "phone" THEN Printing(show_phones(args, book))
    ELSE IF command = "all" THEN Printing(show_all(args, book))
    ELSE IF command = "add-birthday" THEN Printing(add_birthday(args, book))
    ELSE IF command = "show-birthday" THEN Printing(show_birthday(args, book))
    ELSE IF command = "birthdays" THEN Printing(birthdays(got, book))
    ELSE Iteration(book, Ok(NoneVal), <<"Invalid command.">>, FALSE)

\* lines 302-335, given what `parse_input(user_input)` is unpacked from
MainIteration(items, book, got) ==
    IF Raised(items) THEN Iteration(book, items, <<>>, FALSE)
    ELSE IF items.val = <<>>
    THEN Iteration(book, Raise("ValueError", "not enough values to unpack"), <<>>, FALSE)
    ELSE Dispatch(Head(items.val), Tail(items.val), book, got)

---------------------------------------------------------------------------
(* The inputs *)

Names == {"Jane", "Bob"}
ValidPhones == {"1234567890", "0987654321"}

AddLines ==
    {"add Jane 1234567890", "add Jane 0987654321", "add Bob 1234567890",
     "add Bob 123456789", "add Jane 12345abcde", "add Jane",
     "ADD  Jane 1234567890 home"}
ChangeLines ==
    {"change Jane 1234567890 0987654321", "change Jane 1234567890 12345678901",
     "change Bob 1234567890 0987654321", "change Jane 1234567890"}
PhoneLines == {"phone Jane", "phone Bob", "phone"}
AddBirthdayLines ==
    {"add-birthday Jane 29.02.2000", "add-birthday Jane 31.02.2020",
     "add-birthday Bob 2000-02-29", "add-birthday Jane"}
ShowBirthdayLines == {"show-birthday Jane", "show-birthday Bob", "show-birthday"}
OtherLines == {"hello", "all", "", "   ", "remove Jane"}
BirthdaysLines == {"birthdays"}
ExitLines == {"close", "exit", "EXIT"}

Lines ==
    AddLines \cup ChangeLines \cup PhoneLines \cup AddBirthdayLines
        \cup ShowBirthdayLines \cup OtherLines \cup BirthdaysLines \cup ExitLines

\* ParsedItems of every line the loop is given
Parsed == [l \in Lines |-> ParsedItems(l)]

\* the command main dispatches on for a line ("" when there is none)
CommandOf(user_input) ==
    LET items == Parsed[user_input] IN
    IF Raised(items) \/ items.val = <<>> THEN "" ELSE Head(items.val)

ArgsOf(user_input) ==
    LET items == Parsed[user_input] IN
    IF Raised(items) \/ items.val = <<>> THEN <<>> ELSE Tail(items.val)

\* the dates datetime.today() gives in the loop: four days before 29 February of
\* a leap year, and in the year before it
LoopTodays == {Date(2024, 2, 25), Date(2023, 6, 10)}

RECURSIVE SumLen(_, _)
SumLen(d, S) ==
    IF S = {} THEN 0
    ELSE LET n == CHOOSE n \in S : TRUE IN Len(d[n].phones) + SumLen(d, S \ {n})

\* the phones the book holds
PhoneCount(d) == SumLen(d, DOMAIN d)

---------------------------------------------------------------------------
(* The interactive loop *)

\* load_data() finds no file: an empty AddressBook
Init ==
    /\ data = <<>>
    /\ order = <<>>
    /\ pc = "prompt"
    /\ line = ""
    /\ printed = <<"Welcome to the assistant bot!">>
    /\ out = Ok(NoneVal)
    /\ today = <<>>
    /\ upcoming = <<>>
    /\ file = <<>>

\* one iteration of `while True` on user_input, with datetime.today() giving
\* today_date to a get_upcoming_birthdays it runs
Step(user_input, today_date) ==
    /\ pc = "prompt"
    /\ LET birthdays_run == CommandOf(user_input) = "birthdays"
           got == IF birthdays_run
                  THEN GetUpcomingBirthdays(Book(data, order), today_date)
                  ELSE Ok(<<>>)
           it == MainIteration(Parsed[user_input], Book(data, order), got)
       IN
        /\ line' = user_input
        /\ data' = it.book.data
        /\ order' = it.book.order
        /\ out' = it.ret
        /\ printed' = it.text
        /\ pc' = IF Raised(it.ret) THEN "crashed" ELSE IF it.left THEN "done" ELSE "prompt"
        /\ file' = IF it.left THEN <<it.book>> ELSE file
        /\ today' = IF birthdays_run THEN <<today_date>> ELSE <<>>
        /\ upcoming' = IF birthdays_run THEN <<got>> ELSE <<>>

\* a line that does not run get_upcoming_birthdays reads no date
NoDate == Date(1, 1, 1)

\* each action gives the loop the lines written for one case of the match
Add == \E l \in AddLines : PhoneCount(data) < MaxPhones /\ Step(l, NoDate)
Change == \E l \in ChangeLines : Step(l, NoDate)
ShowPhones == \E l \in PhoneLines : Step(l, NoDate)
SetBirthday == \E l \in AddBirthdayLines : Step(l, NoDate)
ShowBirthday == \E l \in ShowBirthdayLines : Step(l, NoDate)
Other == \E l \in OtherLines : Step(l, NoDate)
Birthdays == \E l \in BirthdaysLines, t \in LoopTodays : Step(l, t)
Exit == \E l \in ExitLines : Step(l, NoDate)

Next ==
    \/ Add
    \/ Change
    \/ ShowPhones
    \/ SetBirthday
    \/ ShowBirthday
    \/ Other
    \/ Birthdays
    \/ Exit

Spec == Init /\ [][Next]_vars

---------------------------------------------------------------------------
(* A client of the classes and handlers: one call per step *)

Call(op, args) == [op |-> op, args |-> args]

InitApi ==
    /\ data = <<>>
    /\ order = <<>>
    /\ pc = "client"
    /\ line = Call("AddressBook", <<>>)
    /\ printed = <<>>
    /\ out = Ok(NoneVal)
    /\ today = <<>>
    /\ upcoming = <<>>
    /\ file = <<>>

\* the call returns or raises, leaving the book of res
Returns(call, res) ==
    /\ pc = "client"
    /\ line' = call
    /\ data' = res.book.data
    /\ order' = res.book.order
    /\ out' = res.ret
    /\ UNCHANGED <<pc, printed, today, upcoming, file>>

PhoneValues == ValidPhones \cup {"12345abcde"}
BirthdayValues == {"29.02.2000", "31.02.2020"}

\* book.add_record(Record(name))
CallAddRecord ==
    \E name \in Names \cup {""} :
        LET record == Record(name) IN
        Returns(Call("add_record", <<name>>),
                IF Raised(record) THEN Result(Book(data, order), record)
                ELSE Result(AddRecord(Book(data, order), record.val), Ok(NoneVal)))

\* book.find(name)
CallFind ==
    \E name \in Names :
        Returns(Call("find", <<name>>),
                Result(Book(data, order), Ok(Find(Book(data, order), name))))

\* book.delete(name)
CallDelete ==
    \E name \in Names : Returns(Call("delete", <<name>>), Delete(Book(data, order), name))

\* book.find(name).add_phone(phone)
CallAddPhone ==
    \E name \in DOMAIN data, phone \in PhoneValues :
        /\ PhoneCount(data) < MaxPhones
        /\ Returns(Call("add_phone", <<name, phone>>),
                   OnRecord(Book(data, order), name, AddPhone(data[name], phone)))

\* book.find(name).remove_phone(phone)
CallRemovePhone ==
    \E name \in DOMAIN data, phone \in ValidPhones :
        Returns(Call("remove_phone", <<name, phone>>),
                OnRecord(Book(data, order), name, RemovePhone(data[name], phone)))

\* book.find(name).edit_phone(old_phone, new_phone)
CallEditPhone ==
    \E name \in DOMAIN data, new_phone \in {"0987654321", "12345abcde"} :
        Returns(Call("edit_phone", <<name, "1234567890", new_phone>>),
                OnRecord(Book(data, order), name,
                         EditPhone(data[name], "1234567890", new_phone)))

\* book.find("Jane").add_birthday(birthday_string)
CallAddBirthday ==
    \E name \in DOMAIN data \cap {"Jane"}, birthday_string \in BirthdayValues :
        Returns(Call("add_birthday", <<name, birthday_string>>),
                OnRecord(Book(data, order), name, AddBirthday(data[name], birthday_string)))

\* add_contact(args, book)
CallAddContact ==
    \E args \in {<<"Jane", "1234567890">>, <<"Bob", "123456789">>, <<"Jane">>} :
        /\ PhoneCount(data) < MaxPhones
        /\ Returns(Call("add_contact", args), add_contact(args, Book(data, order)))

\* change_contact(args, book)
CallChangeContact ==
    \E args \in {<<"Jane", "1234567890", "0987654321">>, <<"Bob", "1234567890", "12345">>} :
        Returns(Call("change_contact", args), change_contact(args, Book(data, order)))

\* add_birthday(args, book)
CallAddBirthdayHandler ==
    \E args \in {<<"Jane", "29.02.2000">>, <<"Bob", "31.02.2020">>} :
        Returns(Call("add_birthday_handler", args), add_birthday(args, Book(data, order)))

NextApi ==
    \/ CallAddRecord
    \/ CallFind
    \/ CallDelete
    \/ CallAddPhone
    \/ CallRemovePhone
    \/ CallEditPhone
    \/ CallAddBirthday
    \/ CallAddContact
    \/ CallChangeContact
    \/ CallAddBirthdayHandler

SpecApi == InitApi /\ [][NextApi]_vars

---------------------------------------------------------------------------
(* birthdays(args, book) on every book of the inputs and every date *)

Years == 2023..(2022 + YearSpan)

\* the values of datetime.today().date()
Todays ==
    {Date(y, m, d) : y \in Years, m \in 1..12, d \in 1..31} \cap
        {dt \in [year : Years, month : 1..12, day : 1..31] :
            IsDate(dt.year, dt.month, dt.day)}

\* the birthdays of the records: None, or a date Birthday() accepted (15 June
\* 2024 is a Saturday, 31 December 2023 a Sunday)
BirthdayChoices ==
    {<<>>, <<Date(2000, 2, 29)>>, <<Date(1990, 6, 15)>>, <<Date(1990, 1, 3)>>,
     <<Date(1995, 12, 31)>>}

\* the orders in which the names of S can have been inserted
Orders(S) == {o \in UNION {[1..k -> S] : k \in 0..Cardinality(S)} :
                /\ Len(o) = Cardinality(S)
                /\ \A i, j \in 1..Len(o) : i # j => o[i] # o[j]}

InitUpcoming ==
    /\ \E S \in SUBSET Names :
        /\ order \in Orders(S)
        /\ \E b \in [S -> BirthdayChoices] :
            data = [n \in S |-> [name |-> n, phones |-> <<>>, birthday |-> b[n]]]
    /\ pc = "call"
    /\ line = "birthdays"
    /\ printed = <<>>
    /\ out = Ok(NoneVal)
    /\ today = <<>>
    /\ upcoming = <<>>
    /\ file = <<>>

\* birthdays(args, book), with datetime.today() giving today_date
CallBirthdays ==
    /\ pc = "call"
    /\ \E today_date \in Todays :
        LET got == GetUpcomingBirthdays(Book(data, order), today_date)
            res == birthdays(got, Book(data, order))
        IN  /\ today' = <<today_date>>
            /\ upcoming' = <<got>>
            /\ out' = res.ret
            /\ data' = res.book.data
            /\ order' = res.book.order
            /\ pc' = "returned"
            /\ UNCHANGED <<line, printed, file>>

NextUpcoming == CallBirthdays

SpecUpcoming == InitUpcoming /\ [][NextUpcoming]_vars

---------------------------------------------------------------------------
(* The claims about get_upcoming_birthdays and birthdays, under SpecUpcoming *)

\* the date and the result of the call that has returned
CalledToday == today[1]
Got == upcoming[1]

\* the entries the call emitted: none when it raised
Emitted == IF Raised(Got) THEN <<>> ELSE Got.val

EmittedNames == [i \in 1..Len(Emitted) |-> Emitted[i].name]

HasBirthday(n) == data[n].birthday # <<>>

\* (day, month) of the birthday comes strictly before (day, month) of t
PassedIn(b, t) == b.month < t.month \/ (b.month = t.month /\ b.day < t.day)

\* the candidate as the specification words it: the (day, month) of the
\* birthday in the year of t, in the next year when that is before t
Candidate(b, t) ==
    IF PassedIn(b, t) THEN Date(t.year + 1, b.month, b.day)
    ELSE Date(t.year, b.month, b.day)

\* both dates the candidate is made from are dates of the calendar
CandidateExists(b, t) ==
    /\ IsDate(t.year, b.month, b.day)
    /\ PassedIn(b, t) => IsDate(t.year + 1, b.month, b.day)

Upcoming(n, t) ==
    /\ HasBirthday(n)
    /\ 0 <= ToOrdinal(Candidate(data[n].birthday[1], t)) - ToOrdinal(t)
    /\ ToOrdinal(Candidate(data[n].birthday[1], t)) - ToOrdinal(t) <= 7

\* C1: for every store and every today, get_upcoming_birthdays emits an entry
\* for a record exactly when the record has a birthday whose candidate (this
\* year's date, next year's when it has passed) is 0 to 7 days after today,
\* and the entries are in insertion order.  Stated for the records whose
\* candidate is a date of the calendar.
C1_EmitsExactlyTheUpcoming ==
    pc = "returned" =>
        /\ \A n \in DOMAIN data :
            (HasBirthday(n) => CandidateExists(data[n].birthday[1], CalledToday))
                => ((\E i \in 1..Len(Emitted) : Emitted[i].name = n)
                        <=> Upcoming(n, CalledToday))
        /\ (\A n \in DOMAIN data :
                HasBirthday(n) => CandidateExists(data[n].birthday[1], CalledToday))
            => EmittedNames = SelectSeq(order, LAMBDA n : Upcoming(n, CalledToday))

\* what the code does keep of C1: whenever the call returns a list, the list
\* is the upcoming records in insertion order
C1_HoldsWhenReturned ==
    pc = "returned" /\ ~Raised(Got) =>
        EmittedNames = SelectSeq(order, LAMBDA n : Upcoming(n, CalledToday))

\* the record an entry was emitted for
RecordOf(entry) == data[entry.name]

Shift(candidate) ==
    IF Weekday(candidate) = 5 THEN 2 ELSE IF Weekday(candidate) = 6 THEN 1 ELSE 0

\* C2: the congratulation date of every emitted entry is the candidate plus 2
\* days on a Saturday, plus 1 day on a Sunday, the candidate otherwise; it is
\* never a Saturday or a Sunday and at most 9 days after today.
C2_WeekendMovesToMonday ==
    pc = "returned" =>
        \A i \in 1..Len(Emitted) :
            LET candidate == Candidate(RecordOf(Emitted[i]).birthday[1], CalledToday)
                shown == Strptime(Emitted[i].congratulation_date)
            IN  /\ ~Raised(shown)
                /\ ToOrdinal(shown.val) = ToOrdinal(candidate) + Shift(candidate)
                /\ Weekday(shown.val) \notin {5, 6}
                /\ ToOrdinal(shown.val) - ToOrdinal(CalledToday) <= 9

\* C2, witness: a Saturday candidate 7 days ahead is congratulated 9 days ahead
C2_NineDaysAhead ==
    /\ pc = "returned"
    /\ \E i \in 1..Len(Emitted) :
        /\ Weekday(Candidate(RecordOf(Emitted[i]).birthday[1], CalledToday)) = 5
        /\ ToOrdinal(Strptime(Emitted[i].congratulation_date).val)
                - ToOrdinal(CalledToday) = 9

IsFeb29(n) ==
    HasBirthday(n) /\ data[n].birthday[1].month = 2 /\ data[n].birthday[1].day = 29

\* 29 February of the year of t is a date and strictly before t
Feb29Passed(t) == IsLeap(t.year) /\ (t.month > 2 \/ (t.month = 2 /\ t.day > 29))

\* C9 as claimed: get_upcoming_birthdays raises for a 29 February birthday only
\* when the year is shifted to today's year + 1 and that year is no leap year.
C9_RaisesOnlyWhenShifted ==
    pc = "returned" /\ Raised(Got) =>
        \E n \in DOMAIN data :
            IsFeb29(n) /\ Feb29Passed(CalledToday) /\ ~IsLeap(CalledToday.year + 1)

\* C9 as amended: get_upcoming_birthdays raises exactly when a record has a 29
\* February birthday and today's year is no leap year, or today's year is a
\* leap year and 29 February is before today; when it raises, birthdays
\* returns one "Error: " message, no entry is emitted and the store is unchanged.
C9_RaisesWhenNoSuchDate ==
    [][pc = "call" =>
        /\ Raised(upcoming'[1]) <=>
            \E n \in DOMAIN data :
                IsFeb29(n) /\ (~IsLeap(today'[1].year) \/ Feb29Passed(today'[1]))
        /\ Raised(upcoming'[1]) =>
            /\ ~Raised(out')
            /\ StartsWith(out'.val, "Error: ")
            /\ \A i \in 1..Len(out'.val) : CharAt(out'.val, i) # "\n"
            /\ data' = data
            /\ order' = order]_vars

\* C9, witness: a call in a year that is no leap year raised, with another
\* record's birthday within the next 7 days
C9_RaisedWithoutShift ==
    /\ pc = "returned"
    /\ Raised(Got)
    /\ ~IsLeap(CalledToday.year)
    /\ \E n \in DOMAIN data : ~IsFeb29(n) /\ Upcoming(n, CalledToday)

---------------------------------------------------------------------------
(* The claims about the interactive loop, under Spec *)

\* a string of exactly 10 of the characters 0 to 9
TenDigits(s) == Len(s) = 10 /\ \A i \in 1..10 : CharAt(s, i) \in Digits

NoDuplicates(o) == \A i, j \in 1..Len(o) : i # j => o[i] # o[j]

\* C3: no input line makes the loop leave through an error: every iteration
\* prints one result and returns to the prompt, and the loop ends only on
\* close or exit.
C3_LoopSurvivesEveryLine ==
    [][pc = "prompt" =>
        /\ pc' \in {"prompt", "done"}
        /\ Len(printed') = 1
        /\ pc' = "done" <=> CommandOf(line') \in {"close", "exit"}]_vars

\* C3, witness: birthdays failed on building a date, its message was printed
\* and the loop is at the prompt again
C3_BirthdaysFailedAndLoopGoesOn ==
    /\ pc = "prompt"
    /\ line = "birthdays"
    /\ Raised(upcoming[1])
    /\ printed = <<"Error: day is out of range for month">>

\* C5: add with a valid phone for a name in the store appends the phone to the
\* one record of that name and answers "Contact updated."; for a new name it
\* makes the record with that phone and answers "Contact added."; the store
\* never holds a name twice.
C5_AddExtendsTheOneRecord ==
    [][pc = "prompt" /\ CommandOf(line') = "add" /\ Len(ArgsOf(line')) >= 2
            /\ TenDigits(ArgsOf(line')[2]) =>
        LET name == ArgsOf(line')[1]
            phone == ArgsOf(line')[2]
        IN  /\ DOMAIN data' = DOMAIN data \cup {name}
            /\ NoDuplicates(order')
            /\ {order'[i] : i \in 1..Len(order')} = DOMAIN data'
            /\ IF name \in DOMAIN data
               THEN /\ data'[name].phones = Append(data[name].phones, phone)
                    /\ printed' = <<"Contact updated.">>
                    /\ order' = order
               ELSE /\ data'[name].phones = <<phone>>
                    /\ printed' = <<"Contact added.">>
                    /\ order' = Append(order, name)]_vars

\* C5, witness: the second add for Jane was answered "Contact updated." and
\* her one record holds both phones in call order
C5_BothPhonesInCallOrder ==
    /\ line = "add Jane 0987654321"
    /\ printed = <<"Contact updated.">>
    /\ order = <<"Jane">>
    /\ data["Jane"].phones = <<"1234567890", "0987654321">>

\* the arguments a command needs
Arity(command) == IF command = "change" THEN 3 ELSE IF command = "add-birthday" THEN 2 ELSE 1

\* C7: change, phone, add-birthday and show-birthday with enough arguments
\* for a name that is not in the store answer exactly "Error: Contact not
\* found" and leave the store unchanged.
C7_MissingContactIsReported ==
    [][pc = "prompt"
            /\ CommandOf(line') \in {"change", "phone", "add-birthday", "show-birthday"}
            /\ Len(ArgsOf(line')) >= Arity(CommandOf(line'))
            /\ ArgsOf(line')[1] \notin DOMAIN data =>
        /\ printed' = <<"Error: Contact not found">>
        /\ data' = data
        /\ order' = order]_vars

\* C7, witness: phone for a name that is not in the store was answered
C7_PhoneOfMissingContact ==
    /\ line = "phone Bob"
    /\ "Bob" \notin DOMAIN data
    /\ "Jane" \in DOMAIN data
    /\ printed = <<"Error: Contact not found">>

\* C10: a command whose result begins with "Error: " leaves the store
\* unchanged: the names, every phone sequence and every birthday.
C10_ErrorLeavesStoreUnchanged ==
    [][pc = "prompt" /\ Len(printed') = 1 /\ StartsWith(printed'[1], "Error: ") =>
        data' = data /\ order' = order]_vars

---------------------------------------------------------------------------
(* The claims about Record and AddressBook, under SpecApi *)

\* C4: every phone stored in every record is a string of exactly 10 digits.
C4_StoredPhonesAreTenDigits ==
    \A n \in DOMAIN data : \A i \in 1..Len(data[n].phones) : TenDigits(data[n].phones[i])

\* C4, witness: edit_phone has replaced a phone
C4_PhoneEdited ==
    /\ line.op = "edit_phone"
    /\ ~Raised(out)
    /\ \E i \in 1..Len(data[line.args[1]].phones) :
        data[line.args[1]].phones[i] = line.args[3]

\* C6: edit_phone(old, new) on a record with no phone equal to old raises
\* "Phone not found", whether or not new is valid, and leaves the phone
\* sequence as it was.
C6_EditOfMissingPhoneChangesNothing ==
    [][line'.op = "edit_phone"
            /\ (\A i \in 1..Len(data[line'.args[1]].phones) :
                    data[line'.args[1]].phones[i] # line'.args[2]) =>
        /\ out' = Raise("ValueError", "Phone not found")
        /\ data'[line'.args[1]].phones = data[line'.args[1]].phones
        /\ data' = data]_vars

\* C6, witness: edit_phone to an invalid value failed on the old value, on a
\* record that holds a phone
C6_MissingOldInvalidNew ==
    /\ line.op = "edit_phone"
    /\ ~TenDigits(line.args[3])
    /\ out = Raise("ValueError", "Phone not found")
    /\ data[line.args[1]].phones # <<>>

\* C8: delete of a name that is not in the store raises "Record not found" and
\* leaves the store unchanged; find of such a name returns None; delete of a
\* name in the store removes that record and leaves every other one unchanged.
C8_DeleteAndFind ==
    [][/\ line'.op = "delete" /\ line'.args[1] \notin DOMAIN data =>
            /\ out' = Raise("KeyError", "Record not found")
            /\ data' = data
            /\ order' = order
       /\ line'.op = "delete" /\ line'.args[1] \in DOMAIN data =>
            /\ ~Raised(out')
            /\ DOMAIN data' = DOMAIN data \ {line'.args[1]}
            /\ \A n \in DOMAIN data' : data'[n] = data[n]
            /\ order' = SelectSeq(order, LAMBDA n : n # line'.args[1])
       /\ line'.op = "find" /\ line'.args[1] \notin DOMAIN data =>
            /\ out' = Ok(<<>>)
            /\ data' = data
            /\ order' = order]_vars

\* C8, witness: delete removed a record and another record is still there
C8_DeletedOneOfTwo ==
    /\ line.op = "delete"
    /\ ~Raised(out)
    /\ line.args[1] \notin DOMAIN data
    /\ \E n \in DOMAIN data : data[n].phones # <<>>

=============================================================================
